---- MODULE Spec2Model ----
(***************************************************************************)
(* OpenStratos CI (src/src/main.rs): one run of the `ci` binary.           *)
(*                                                                         *)
(* The run reads an authentication key from stdin, builds the OpenStratos  *)
(* repository, composes the cargo feature list from the command line       *)
(* (asking for a confirmation when SMSs will be sent), runs the ignored    *)
(* tests with those features and POSTs the TestResult to the REST API.     *)
(*                                                                         *)
(* Text is modelled as it is in the program: a String is a sequence of     *)
(* Unicode code points, a byte buffer a sequence of bytes, and             *)
(* String::from_utf8_lossy, str::len and str::trim are computed.           *)
(* The environment (stdin lines, child processes, the HTTP server) is a    *)
(* nondeterministic choice from small sets at each blocking call.          *)
(* Every write to stdout can fail: a println! that fails panics (the        *)
(* process ends with exit code 101; what std still holds in its line        *)
(* buffer is written once more as the process ends, and may come out), a    *)
(* print! is only buffered and its failure is the Err of the flush()? that  *)
(* follows it.  The run starts at get_matches(), which can end the process. *)
(***************************************************************************)
EXTENDS Integers, Sequences, FiniteSets, TLC

VARIABLES
    cli,        \* set of flags present in the parsed command line (line 80)
    pc,         \* position of run()/main()
    key,        \* `key` (lines 83-91): String, code points
    response,   \* `response` of the confirmation (lines 121-131)
    features,   \* `features` (line 108): Vec<&'static str>
    result,     \* `result` (line 93): TestResult
    reads,      \* number of read_line calls made on stdin so far
    out,        \* lines written to stdout, each a tuple of tokens
    cmds,       \* child processes launched so far: argv, in launch order
    posts,      \* HTTP requests issued so far
    resp,       \* the HTTP response received (status, body bytes), if any
    error,      \* error chain returned by run(): <<>> when none
    exit_code,  \* process exit code once pc = "exited", else -1
    stages,     \* history: stages completed so far, in completion order
    exits       \* history: exit-success of each child that was waited for

vars == <<cli, pc, key, response, features, result, reads, out, cmds, posts,
          resp, error, exit_code, stages, exits>>

\* ------------------------------------------------------------------ bounds

\* read_line calls one run may make (the loops themselves have no limit).
MaxReads == 4

\* ---------------------------------------------------------------- constants

OPENSTRATOS_REPO == "/opt/openstratos/server-rs"
OPENSTRATOS_REST == "http://staging.openstratos.org/test"
KEY_LEN == 20

\* repo.clone().join("Cargo.toml")
manifest == OPENSTRATOS_REPO \o "/" \o "Cargo.toml"

\* ------------------------------------------------------------------- text

RECURSIVE Rep(_, _)
Rep(n, c) == IF n = 0 THEN <<>> ELSE <<c>> \o Rep(n - 1, c)

\* Number of bytes of the UTF-8 encoding of code point c.
len_utf8(c) == IF c < 128 THEN 1 ELSE IF c < 2048 THEN 2 ELSE IF c < 65536 THEN 3 ELSE 4

\* str::len: the length in bytes, not in characters.
RECURSIVE len(_)
len(s) == IF s = <<>> THEN 0 ELSE len_utf8(Head(s)) + len(Tail(s))

\* char::is_whitespace: the code points with the White_Space property:
\* U+0009..U+000D, U+0020, U+0085, U+00A0, U+1680, U+2000..U+200A, U+2028,
\* U+2029, U+202F, U+205F, U+3000.
is_whitespace(c) ==
    \/ c \in {9, 10, 11, 12, 13, 32, 133, 160, 5760, 8232, 8233, 8239, 8287, 12288}
    \/ (c >= 8192 /\ c <= 8202)

RECURSIVE trim_start(_)
trim_start(s) ==
    IF s # <<>> /\ is_whitespace(Head(s)) THEN trim_start(Tail(s)) ELSE s

RECURSIVE trim_end(_)
trim_end(s) ==
    IF s # <<>> /\ is_whitespace(s[Len(s)])
    THEN trim_end(SubSeq(s, 1, Len(s) - 1))
    ELSE s

\* str::trim
trim(s) == trim_end(trim_start(s))

\* utf8_char_width: the length the lead byte announces, 0 for a byte that
\* cannot start a sequence.
utf8_char_width(b) ==
    IF b < 128 THEN 1
    ELSE IF b >= 194 /\ b <= 223 THEN 2
    ELSE IF b >= 224 /\ b <= 239 THEN 3
    ELSE IF b >= 240 /\ b <= 244 THEN 4
    ELSE 0

\* Whether byte i of the buffer exists and is a continuation byte.
is_cont(bytes, i) == i <= Len(bytes) /\ bytes[i] >= 128 /\ bytes[i] <= 191

\* Whether the byte after a three- or four-byte lead is one the lead allows
\* (no overlong form, no surrogate, nothing above U+10FFFF).
second_ok(bytes) ==
    /\ Len(bytes) >= 2
    /\ LET b == bytes[1]
           s == bytes[2]
       IN  CASE b = 224 -> s >= 160 /\ s <= 191
             [] b = 237 -> s >= 128 /\ s <= 159
             [] b = 240 -> s >= 144 /\ s <= 191
             [] b = 244 -> s >= 128 /\ s <= 143
             [] OTHER   -> s >= 128 /\ s <= 191

\* String::from_utf8_lossy on a byte buffer: a well-formed sequence decodes
\* to its code point; an ill-formed one gives one U+FFFD for its longest
\* prefix that could have started a sequence (at least one byte), and
\* decoding goes on after that prefix.
RECURSIVE from_utf8_lossy(_)
from_utf8_lossy(bytes) ==
    IF bytes = <<>> THEN <<>>
    ELSE LET b == Head(bytes)
             w == utf8_char_width(b)
             after(n) == from_utf8_lossy(SubSeq(bytes, n + 1, Len(bytes)))
         IN
         IF w = 1 THEN <<b>> \o after(1)
         ELSE IF w = 2 THEN
             IF ~is_cont(bytes, 2) THEN <<65533>> \o after(1)
             ELSE <<(b - 192) * 64 + (bytes[2] - 128)>> \o after(2)
         ELSE IF w = 3 THEN
             IF ~second_ok(bytes) THEN <<65533>> \o after(1)
             ELSE IF ~is_cont(bytes, 3) THEN <<65533>> \o after(2)
             ELSE <<(b - 224) * 4096 + (bytes[2] - 128) * 64 + (bytes[3] - 128)>>
                      \o after(3)
         ELSE IF w = 4 THEN
             IF ~second_ok(bytes) THEN <<65533>> \o after(1)
             ELSE IF ~is_cont(bytes, 3) THEN <<65533>> \o after(2)
             ELSE IF ~is_cont(bytes, 4) THEN <<65533>> \o after(3)
             ELSE <<(b - 240) * 262144 + (bytes[2] - 128) * 4096
                      + (bytes[3] - 128) * 64 + (bytes[4] - 128)>> \o after(4)
         ELSE <<65533>> \o after(1)

\* ------------------------------------------------------------ environment

\* Arguments declared by cli() (lines 211-235), in declaration order.
Flags == {"raspicam", "fona", "no_sms", "gps", "telemetry", "no_power_off"}

\* Command lines get_matches() accepts: no_sms .requires("fona") (line 223);
\* any other command line ends the process inside the argument parser.
ValidCli == {c \in SUBSET Flags : "no_sms" \in c => "fona" \in c}

\* Command lines the process can be started with: any set of the flags,
\* --help, --version, or an argument cli() does not declare.
CommandLines ==
    (SUBSET Flags) \cup { {"help"}, {"version"}, {"unknown"} }

\* cli.is_present(name)
is_present(name) == name \in cli

\* What one read_line call can append to its buffer: nothing at end of input,
\* else one line with its terminator.  120 = 'x', 233 = U+00E9 (two bytes),
\* 121 = 'y', 110 = 'n', 89 = 'Y', 101 = 'e', 115 = 's'; 12288 = U+3000,
\* 8233 = U+2029, 8192 = U+2000 and 5760 = U+1680 are white space of three
\* bytes each.
Lines ==
    { <<>>,
      Rep(KEY_LEN - 1, 120) \o <<10>>,
      Rep(KEY_LEN, 120) \o <<10>>,
      <<12288, 9>> \o Rep(KEY_LEN, 120) \o <<8233, 13, 10>>,
      Rep(KEY_LEN, 233) \o <<10>>,
      <<121, 10>>,
      <<110, 10>>,
      <<8192, 110, 5760, 13, 10>>,
      <<89, 10>>,
      <<121, 101, 115, 10>> }

\* What Command::output() returns for a child that was launched and waited
\* for: exit status and the two captured streams (bytes: 97 = 'a', 195 169
\* is U+00E9, 255 is never valid UTF-8, 226 130 is the start of a three-byte
\* sequence cut short, 240 159 152 128 is U+1F600).
ChildOutcomes ==
    { [success |-> TRUE,  stdout |-> <<97, 195, 169>>,
                          stderr |-> <<240, 159, 152, 128>>],
      [success |-> FALSE, stdout |-> <<226, 130, 97>>, stderr |-> <<255, 97>>] }

\* Responses of the REST API: a status code and a body (two lines of valid
\* UTF-8, a truncated sequence).
Statuses == {200, 201, 404}
Bodies == { <<97, 10, 195, 169>>, <<226, 130>> }

\* ----------------------------------------------------------------- errors

\* error::Error (lines 25-41): the kinds Io, Reqwest (foreign links), Msg
\* (chain_err with a string) and RequestPost(status_code, response).
ErrIo == [kind |-> "Io", msg |-> "", status_code |-> 0, response |-> <<>>]
ErrReqwest == [kind |-> "Reqwest", msg |-> "", status_code |-> 0, response |-> <<>>]
ErrMsg(m) == [kind |-> "Msg", msg |-> m, status_code |-> 0, response |-> <<>>]
RequestPost(status_code, body) ==
    [kind |-> "RequestPost", msg |-> "non-OK status code in REST API",
     status_code |-> status_code, response |-> body]

\* A cause of a foreign error: what std::error::Error::cause gives for the
\* io::Error or reqwest::Error itself.
ErrCause == [kind |-> "Cause", msg |-> "", status_code |-> 0, response |-> <<>>]

\* The causes a reqwest::Error can have of its own: none, or one.  (The
\* io::Errors here are those of the operating system, which have none.)
ForeignCauses == { <<>>, <<ErrCause>> }

\* ResultExt::chain_err: a new Msg error whose cause is the given chain.
chain_err(chain, m) == <<ErrMsg(m)>> \o chain

\* Display of one error of the chain (lines 35-37 for RequestPost).
display(e) ==
    CASE e.kind = "RequestPost" ->
            <<"A '", e.status_code,
              "' status code was received, with this response body:\n",
              e.response>>
      [] e.kind = "Msg" -> <<e.msg>>
      [] OTHER -> <<e.kind>>

\* main(), lines 61-71: the lines printed for the error returned by run():
\* the error, each cause (the causes of a foreign error included, which
\* iter() walks too), and, when the error holds a backtrace (RUST_BACKTRACE
\* was set when it was created), an empty line and the backtrace, which is
\* a text of several lines.
ErrorLines(chain, backtrace) ==
    <<<<"An error occurred: ">> \o display(chain[1])>>
    \o [i \in 1..(Len(chain) - 1) |-> <<"\tcaused by: ">> \o display(chain[i + 1])]
    \o (IF backtrace
        THEN << <<>>, <<"\tbacktrace: ", "stack backtrace:\n", "frames">> >>
        ELSE <<>>)

\* A text of which stdout received only a part: a write that fails may
\* have been short, so any beginning of the text that is neither empty nor
\* the whole of it can be what came out (a cut at a newline inside the text
\* included).  Where the cut fell is not recorded.
Part(line) == <<"part of">> \o line

\* The parts a text can leave: none for the empty line, which is one byte.
Parts(line) == IF line = <<>> THEN {} ELSE {Part(line)}

\* What stdout can have received of `lines` when one of their println!
\* failed: the lines before it and, of the failing one, nothing, a part, or
\* all of it (the text that was still buffered comes out when the buffer is
\* written again as the process ends).
Printed(lines) ==
    {SubSeq(lines, 1, n) : n \in 0..Len(lines)}
    \cup UNION {{Append(SubSeq(lines, 1, n), c) : c \in Parts(lines[n + 1])} :
                  n \in 0..(Len(lines) - 1)}

\* A println! inside run() fails: the thread panics, run() never returns and
\* the process ends with exit code 101; `o` is what stdout had received,
\* and `line` is lost, or comes out after it in part or whole.
Panic(o, line) ==
    /\ pc' = "exited"
    /\ error' = <<>>
    /\ exit_code' = 101
    /\ out' \in {o, Append(o, Part(line)), Append(o, line)}

\* run() returns Err(chain): main prints it line by line and exits with 1;
\* if one of these println! fails main panics instead, exit code 101.
\* `o` is what stdout has received, `pending` the text a failed flush left
\* in its buffer (none, or one text): it is written again ahead of the
\* error lines, and when that write fails none of it, a part of it, or all
\* of it with nothing of the error lines can have come out.
Fail(o, pending, chain) ==
    /\ pc' = "exited"
    /\ error' = chain
    /\ \E backtrace \in BOOLEAN :
          LET lines == ErrorLines(chain, backtrace) IN
          \/ /\ exit_code' = 1
             /\ out' = o \o pending \o lines
          \/ /\ exit_code' = 101
             /\ \/ \E p \in Printed(lines) : out' = o \o pending \o p
                \/ /\ pending # <<>>
                   /\ out' \in {o, Append(o, Part(pending[1]))}

\* run() returns Ok(()): main prints "All tests OK" (line 75) and returns,
\* or panics if that println! fails.
Succeed(o) ==
    \/ /\ pc' = "exited"
       /\ error' = <<>>
       /\ exit_code' = 0
       /\ out' = o \o <<<<"All tests OK">>>>
    \/ Panic(o, <<"All tests OK">>)

\* ------------------------------------------------------------- TestResult

\* TestResult::default() (lines 46-55, 93).
TestResultDefault ==
    [build |-> FALSE, build_stdout |-> <<>>, build_stderr |-> <<>>,
     test |-> FALSE, test_stdout |-> <<>>, test_stderr |-> <<>>,
     features |-> <<>>]

\* #[derive(Serialize)] through .json(&result): a JSON object whose members
\* are the fields in declaration order.
to_json(r) ==
    << <<"build", r.build>>,
       <<"build_stdout", r.build_stdout>>,
       <<"build_stderr", r.build_stderr>>,
       <<"test", r.test>>,
       <<"test_stdout", r.test_stdout>>,
       <<"test_stderr", r.test_stderr>>,
       <<"features", r.features>> >>

\* ------------------------------------------------------- feature strings

\* `if cli.is_present(name) { features.push(name) }`
push_if_present(v, name) == IF is_present(name) THEN Append(v, name) ELSE v

\* Mutant of first_features: no_sms only suppresses the question.
first_features_omits_no_sms ==
    push_if_present(push_if_present(<<>>, "raspicam"), "fona")

\* Lines 108-117: the list before the confirmation: raspicam, fona and,
\* when present, no_sms.
first_features ==
    push_if_present(push_if_present(push_if_present(
        <<>>, "raspicam"), "fona"), "no_sms")

\* Mutant of rest_features: telemetry is pushed before gps.
rest_features_telemetry_first(v) ==
    push_if_present(push_if_present(push_if_present(
        v, "telemetry"), "gps"), "no_power_off")

\* Lines 140-148: the list after the confirmation: gps, telemetry,
\* no_power_off.
rest_features(v) ==
    push_if_present(push_if_present(push_if_present(
        v, "gps"), "telemetry"), "no_power_off")

\* Lines 151-163: the first feature, then ' ' and the feature for each of
\* the others.  The String is kept as its pieces, a separator being " ".
RECURSIVE push_rest(_, _)
push_rest(str, rest) ==
    IF rest = <<>> THEN str
    ELSE push_rest(Append(Append(str, " "), Head(rest)), Tail(rest))

\* Mutant of join_features: the first feature is taken from the iterator
\* and lost.
join_features_drops_first(v) ==
    IF v = <<>> \/ Tail(v) = <<>> THEN <<>>
    ELSE push_rest(<<Head(Tail(v))>>, Tail(Tail(v)))

join_features(v) == IF v = <<>> THEN <<>> ELSE push_rest(<<Head(v)>>, Tail(v))

\* Mutant of test_argv: --features is passed even for an empty string.
test_argv_always_features(features_str) ==
    <<"cargo", "test", "--manifest-path", manifest, "--no-default-features",
      "--features", features_str, "--", "--ignored">>

\* Lines 97-100: the build command.
build_argv == <<"cargo", "build", "--manifest-path", manifest>>

\* Lines 166-175: the test command; --features only for a non-empty string.
test_argv(features_str) ==
    <<"cargo", "test", "--manifest-path", manifest, "--no-default-features">>
    \o (IF features_str # <<>> THEN <<"--features", features_str>> ELSE <<>>)
    \o <<"--", "--ignored">>

\* ---------------------------------------------------------------- actions

Init ==
    /\ cli \in CommandLines
    /\ pc = "get_matches"
    /\ key = <<>>
    /\ response = <<>>
    /\ features = <<>>
    /\ result = TestResultDefault
    /\ reads = 0
    /\ out = <<>>
    /\ cmds = <<>>
    /\ posts = <<>>
    /\ resp = <<>>
    /\ error = <<>>
    /\ exit_code = -1
    /\ stages = <<>>
    /\ exits = <<>>

\* Line 80: cli().get_matches() returns the matches of a command line it
\* accepts; for --help and --version it prints the text asked for and ends
\* the process with exit code 0 (it panics if that write fails); for any
\* other command line it reports on stderr and ends the process with exit
\* code 1.
get_matches ==
    /\ pc = "get_matches"
    /\ IF cli \in ValidCli
       THEN /\ pc' = "read_key"
            /\ UNCHANGED <<out, exit_code>>
       ELSE /\ pc' = "exited"
            /\ IF cli \in { {"help"}, {"version"} }
               THEN LET text == <<"OpenStratos Continuous Integration">> \o
                                (IF cli = {"help"} THEN <<"help">> ELSE <<"version">>)
                    IN  \/ /\ exit_code' = 0
                           /\ out' = <<text>>
                        \/ /\ exit_code' = 101       \* the write fails
                           /\ out' \in {<<>>, <<Part(text)>>, <<text>>}
               ELSE /\ exit_code' = 1
                    /\ UNCHANGED out
    /\ UNCHANGED <<cli, key, response, features, result, reads, cmds, posts,
                   resp, error, stages, exits>>

\* Lines 82-84: prompt, then the first read_line into an empty `key`.
ReadKey ==
    /\ pc = "read_key"
    /\ \/ /\ Panic(out, <<"Please, insert your authentication key:">>)
          /\ UNCHANGED <<key, reads>>
       \/ /\ reads < MaxReads
          /\ reads' = reads + 1
          /\ LET o == Append(out, <<"Please, insert your authentication key:">>) IN
             \/ \E line \in Lines :
                   /\ key' = line
                   /\ pc' = "check_key"
                   /\ out' = o
                   /\ UNCHANGED <<error, exit_code>>
             \/ /\ Fail(o, <<>>, <<ErrIo>>)           \* read_line()? fails
                /\ UNCHANGED key
    /\ UNCHANGED <<cli, response, features, result, cmds, posts, resp, stages>>
    /\ UNCHANGED exits

\* Mutant of RejectKey: after three reads the run gives up.
RejectKeyLimited ==
    /\ pc = "check_key"
    /\ len(trim(key)) # KEY_LEN
    /\ IF reads >= 3
       THEN /\ Fail(out, <<>>, <<ErrMsg("too many attempts")>>)
            /\ UNCHANGED <<key, reads>>
       ELSE \/ /\ Panic(out, <<"Invalid key, please, insert the correct key:">>)
               /\ UNCHANGED <<key, reads>>
            \/ /\ reads' = reads + 1
               /\ LET o == Append(out, <<"Invalid key, please, insert the correct key:">>) IN
                  \/ \E line \in Lines :
                        /\ key' = line
                        /\ pc' = "check_key"
                        /\ out' = o
                        /\ UNCHANGED <<error, exit_code>>
                  \/ /\ Fail(o, <<>>, <<ErrIo>>)
                     /\ key' = <<>>
    /\ UNCHANGED <<cli, response, features, result, cmds, posts, resp, stages,
                   exits>>

\* Lines 86-90: the key read is not KEY_LEN bytes long once trimmed: prompt
\* again, clear, read again.
RejectKey ==
    /\ pc = "check_key"
    /\ len(trim(key)) # KEY_LEN
    /\ \/ /\ Panic(out, <<"Invalid key, please, insert the correct key:">>)
          /\ UNCHANGED <<key, reads>>
       \/ /\ reads < MaxReads
          /\ reads' = reads + 1
          /\ LET o == Append(out, <<"Invalid key, please, insert the correct key:">>) IN
             \/ \E line \in Lines :
                   /\ key' = line
                   /\ pc' = "check_key"
                   /\ out' = o
                   /\ UNCHANGED <<error, exit_code>>
             \/ /\ Fail(o, <<>>, <<ErrIo>>)           \* read_line()? fails
                /\ key' = <<>>
    /\ UNCHANGED <<cli, response, features, result, cmds, posts, resp, stages>>
    /\ UNCHANGED exits

\* Mutant of AcceptKey: the key is kept as it was read.
AcceptKeyKeepsLine ==
    /\ pc = "check_key"
    /\ len(trim(key)) = KEY_LEN
    /\ result' = TestResultDefault
    /\ stages' = Append(stages, "key")
    /\ pc' = "build"
    /\ UNCHANGED <<cli, key, response, features, reads, out, cmds, posts, resp,
                   error, exit_code, exits>>

\* Mutant of AcceptKey: the length test is made on the untrimmed line.
AcceptKeyUntrimmed ==
    /\ pc = "check_key"
    /\ len(key) = KEY_LEN
    /\ key' = trim(key)
    /\ result' = TestResultDefault
    /\ stages' = Append(stages, "key")
    /\ pc' = "build"
    /\ UNCHANGED <<cli, response, features, reads, out, cmds, posts, resp,
                   error, exit_code>>
    /\ UNCHANGED exits

\* Lines 86, 91-95: the loop ends; `key` is rebound to its trimmed text and
\* the empty TestResult is created.
AcceptKey ==
    /\ pc = "check_key"
    /\ len(trim(key)) = KEY_LEN
    /\ key' = trim(key)
    /\ result' = TestResultDefault
    /\ stages' = Append(stages, "key")
    /\ pc' = "build"
    /\ UNCHANGED <<cli, response, features, reads, out, cmds, posts, resp,
                   error, exit_code>>
    /\ UNCHANGED exits

\* Mutant of BuildSpawn: the build is launched only after the features.
BuildSpawnSkipped ==
    /\ pc = "build"
    /\ pc' = "select"
    /\ UNCHANGED <<cli, key, response, features, result, reads, out, cmds,
                   posts, resp, error, exit_code, stages>>
    /\ UNCHANGED exits

\* Lines 97-102: Command::output() launches `cargo build`, or fails to.
BuildSpawn ==
    /\ pc = "build"
    /\ \/ /\ cmds' = Append(cmds, build_argv)
          /\ pc' = "build_wait"
          /\ UNCHANGED <<out, error, exit_code>>
       \/ /\ Fail(out, <<>>, chain_err(<<ErrIo>>, "error running the build command"))
          /\ UNCHANGED cmds
    /\ UNCHANGED <<cli, key, response, features, result, reads, posts, resp,
                   stages>>
    /\ UNCHANGED exits

\* Mutant of BuildExit: a build that exits non-zero ends the run.
BuildExitAbortsOnFailure ==
    /\ pc = "build_wait"
    /\ \/ \E o \in ChildOutcomes :
             /\ result' = [result EXCEPT !.build = o.success,
                                         !.build_stdout = from_utf8_lossy(o.stdout),
                                         !.build_stderr = from_utf8_lossy(o.stderr)]
             /\ exits' = Append(exits, o.success)
             /\ stages' = Append(stages, "build")
             /\ IF o.success
                THEN /\ pc' = "select"
                     /\ UNCHANGED <<out, error, exit_code>>
                ELSE Fail(out, <<>>, <<ErrMsg("build failed")>>)
       \/ /\ Fail(out, <<>>, chain_err(<<ErrIo>>, "error running the build command"))
          /\ UNCHANGED <<result, exits, stages>>
    /\ UNCHANGED <<cli, key, response, features, reads, cmds, posts, resp>>

\* Lines 101-106: the build child exits and its outcome is recorded; or
\* output() returns Err after the launch (the wait, or the reading of the
\* child's pipes, fails) and run() ends at the `?` of line 102.
BuildExit ==
    /\ pc = "build_wait"
    /\ \/ /\ \E o \in ChildOutcomes :
                /\ result' = [result EXCEPT !.build = o.success,
                                            !.build_stdout = from_utf8_lossy(o.stdout),
                                            !.build_stderr = from_utf8_lossy(o.stderr)]
                /\ exits' = Append(exits, o.success)
          /\ stages' = Append(stages, "build")
          /\ pc' = "select"
          /\ UNCHANGED <<out, error, exit_code>>
       \/ /\ Fail(out, <<>>, chain_err(<<ErrIo>>, "error running the build command"))
          /\ UNCHANGED <<result, exits, stages>>
    /\ UNCHANGED <<cli, key, response, features, reads, cmds, posts, resp>>

\* Lines 108-122: the first features; with no_sms the list has taken
\* "no_sms", without it the confirmation is asked and the first answer read.
SelectFeatures ==
    /\ pc = "select"
    /\ features' = first_features
    /\ IF is_present("no_sms")
       THEN /\ pc' = "compose"
            /\ UNCHANGED <<response, reads, out, error, exit_code>>
       ELSE /\ LET o == Append(out, <<"You decided to test by sending SMSs but this can cost you money, are you sure? (y/n)">>) IN
               \/ /\ Fail(out, SubSeq(o, Len(o), Len(o)), <<ErrIo>>)  \* flush()? fails
                  /\ UNCHANGED <<response, reads>>
               \/ /\ reads < MaxReads
                  /\ reads' = reads + 1
                  /\ \/ \E line \in Lines :
                           /\ response' = line
                           /\ pc' = "check_response"
                           /\ out' = o
                           /\ UNCHANGED <<error, exit_code>>
                     \/ /\ Fail(o, <<>>, <<ErrIo>>)   \* read_line()? fails
                        /\ UNCHANGED response
    /\ UNCHANGED <<cli, key, result, cmds, posts, resp, stages>>
    /\ UNCHANGED exits

\* Mutant of RejectResponse: an answer that is neither "y" nor "n" is taken
\* as a yes.
RejectResponseGivesUp ==
    /\ pc = "check_response"
    /\ trim(response) # <<121>> /\ trim(response) # <<110>>
    /\ pc' = "compose"
    /\ UNCHANGED <<cli, key, response, features, result, reads, out, cmds,
                   posts, resp, error, exit_code, stages, exits>>

\* Lines 124-129: the answer is neither "y" nor "n" once trimmed: ask again.
RejectResponse ==
    /\ pc = "check_response"
    /\ trim(response) # <<121>> /\ trim(response) # <<110>>
    /\ LET o == Append(out, <<"Please, select 'y' (yes) or 'n' (no)">>) IN
       \/ /\ Fail(out, SubSeq(o, Len(o), Len(o)), <<ErrIo>>)  \* flush()? fails
          /\ UNCHANGED <<response, reads>>
       \/ /\ reads < MaxReads
          /\ reads' = reads + 1
          /\ \/ \E line \in Lines :
                   /\ response' = line
                   /\ pc' = "check_response"
                   /\ out' = o
                   /\ UNCHANGED <<error, exit_code>>
             \/ /\ Fail(o, <<>>, <<ErrIo>>)           \* read_line()? fails
                /\ response' = <<>>
    /\ UNCHANGED <<cli, key, features, result, cmds, posts, resp, stages>>
    /\ UNCHANGED exits

\* Mutant of Decline: the answer "n" goes on like "y".
DeclineProceeds ==
    /\ pc = "check_response"
    /\ trim(response) = <<110>>
    /\ pc' = "compose"
    /\ UNCHANGED <<cli, key, response, features, result, reads, out, cmds,
                   posts, resp, error, exit_code, stages>>
    /\ UNCHANGED exits

\* Lines 131-136 and 75: the answer is "n": "Aborting test." is printed
\* and run() returns Ok(()).
Decline ==
    /\ pc = "check_response"
    /\ trim(response) = <<110>>
    /\ \/ Panic(out, <<"Aborting test.">>)           \* println! fails
       \/ Succeed(Append(out, <<"Aborting test.">>))
    /\ UNCHANGED <<cli, key, response, features, result, reads, cmds, posts,
                   resp, stages>>
    /\ UNCHANGED exits

\* Mutant of Confirm: the answer is compared without regard to case.
ConfirmIgnoresCase ==
    /\ pc = "check_response"
    /\ trim(response) \in {<<121>>, <<89>>}
    /\ pc' = "compose"
    /\ UNCHANGED <<cli, key, response, features, result, reads, out, cmds,
                   posts, resp, error, exit_code, stages, exits>>

\* Lines 131-132: the answer is "y".
Confirm ==
    /\ pc = "check_response"
    /\ trim(response) = <<121>>
    /\ pc' = "compose"
    /\ UNCHANGED <<cli, key, response, features, result, reads, out, cmds,
                   posts, resp, error, exit_code, stages>>
    /\ UNCHANGED exits

\* Mutant of Compose: the list is not stored in the TestResult.
ComposeForgetsResult ==
    /\ pc = "compose"
    /\ features' = rest_features(features)
    /\ stages' = stages \o <<"features", "assembly">>
    /\ pc' = "test"
    /\ UNCHANGED <<cli, key, response, result, reads, out, cmds, posts, resp,
                   error, exit_code, exits>>

\* Lines 140-164: the remaining features, then result.features = features.
Compose ==
    /\ pc = "compose"
    /\ features' = rest_features(features)
    /\ result' = [result EXCEPT !.features = features']
    /\ stages' = stages \o <<"features", "assembly">>
    /\ pc' = "test"
    /\ UNCHANGED <<cli, key, response, reads, out, cmds, posts, resp, error,
                   exit_code>>
    /\ UNCHANGED exits

\* Lines 151-163, 166-177: Command::output() launches `cargo test` with the
\* joined features, or fails to.
TestSpawn ==
    /\ pc = "test"
    /\ \/ /\ cmds' = Append(cmds, test_argv(join_features(features)))
          /\ pc' = "test_wait"
          /\ UNCHANGED <<out, error, exit_code>>
       \/ /\ Fail(out, <<>>, chain_err(<<ErrIo>>,
                       "error running the default features test command"))
          /\ UNCHANGED cmds
    /\ UNCHANGED <<cli, key, response, features, result, reads, posts, resp,
                   stages>>
    /\ UNCHANGED exits

\* Mutant of TestExit: the test status is stored in result.build.
TestExitStoresInBuild ==
    /\ pc = "test_wait"
    /\ \/ /\ \E o \in ChildOutcomes :
                /\ result' = [result EXCEPT !.build = o.success,
                                            !.test_stdout = from_utf8_lossy(o.stdout),
                                            !.test_stderr = from_utf8_lossy(o.stderr)]
                /\ exits' = Append(exits, o.success)
          /\ stages' = Append(stages, "test")
          /\ pc' = "send"
          /\ UNCHANGED <<out, error, exit_code>>
       \/ /\ Fail(out, <<>>, chain_err(<<ErrIo>>,
                       "error running the default features test command"))
          /\ UNCHANGED <<result, exits, stages>>
    /\ UNCHANGED <<cli, key, response, features, reads, cmds, posts, resp>>

\* Lines 176-181: the test child exits and its outcome is recorded; or
\* output() returns Err after the launch and run() ends at the `?` of
\* line 177.
TestExit ==
    /\ pc = "test_wait"
    /\ \/ /\ \E o \in ChildOutcomes :
                /\ result' = [result EXCEPT !.test = o.success,
                                            !.test_stdout = from_utf8_lossy(o.stdout),
                                            !.test_stderr = from_utf8_lossy(o.stderr)]
                /\ exits' = Append(exits, o.success)
          /\ stages' = Append(stages, "test")
          /\ pc' = "send"
          /\ UNCHANGED <<out, error, exit_code>>
       \/ /\ Fail(out, <<>>, chain_err(<<ErrIo>>,
                       "error running the default features test command"))
          /\ UNCHANGED <<result, exits, stages>>
    /\ UNCHANGED <<cli, key, response, features, reads, cmds, posts, resp>>

\* Lines 183, 186-194: send_result builds the client (which can fail) and
\* issues the POST with the result as JSON and the key as Basic username.
SendResult ==
    /\ pc = "send"
    /\ \/ /\ posts' = Append(posts, [method |-> "POST",
                                     url |-> OPENSTRATOS_REST,
                                     json |-> to_json(result),
                                     username |-> key,
                                     password |-> "None"])
          /\ pc' = "http_wait"
          /\ UNCHANGED <<out, error, exit_code>>
       \/ /\ \E c \in ForeignCauses :
                Fail(out, <<>>, chain_err(<<ErrReqwest>> \o c, "error sending result"))
          /\ UNCHANGED posts
    /\ UNCHANGED <<cli, key, response, features, result, reads, cmds, resp,
                   stages>>
    /\ UNCHANGED exits

\* Mutant of HttpReturn: every response is taken as Ok(()).
HttpReturnAcceptsAnyStatus ==
    /\ pc = "http_wait"
    /\ \E status \in Statuses, body \in Bodies :
          /\ resp' = Append(resp, [status |-> status, body |-> body])
          /\ Succeed(out)
          /\ stages' = Append(stages, "report")
    /\ UNCHANGED <<cli, key, response, features, result, reads, cmds, posts>>
    /\ UNCHANGED exits

\* Mutant of HttpReturn: a failed send or a non-200 response is retried.
HttpReturnRetries ==
    /\ pc = "http_wait"
    /\ \/ /\ pc' = "send"
          /\ UNCHANGED <<resp, stages, out, error, exit_code>>
       \/ \E status \in Statuses, body \in Bodies :
             /\ resp' = Append(resp, [status |-> status, body |-> body])
             /\ IF status = 200
                THEN /\ Succeed(out)
                     /\ stages' = Append(stages, "report")
                ELSE /\ pc' = "send"
                     /\ UNCHANGED <<stages, out, error, exit_code>>
    /\ UNCHANGED <<cli, key, response, features, result, reads, cmds, posts>>
    /\ UNCHANGED exits

\* Lines 194-203, 183 and 60-75: send() fails in transport, or a response
\* arrives: 200 is Ok(()); any other status reads the body (which can fail)
\* and returns RequestPost with the status and the lossily decoded body.
HttpReturn ==
    /\ pc = "http_wait"
    /\ \/ /\ \E c \in ForeignCauses :
                Fail(out, <<>>, chain_err(<<ErrReqwest>> \o c, "error sending result"))
          /\ UNCHANGED <<resp, stages>>
       \/ \E status \in Statuses, body \in Bodies :
             /\ resp' = Append(resp, [status |-> status, body |-> body])
             /\ IF status = 200
                THEN /\ Succeed(out)
                     /\ stages' = Append(stages, "report")
                ELSE /\ UNCHANGED stages
                     /\ \/ Fail(out, <<>>,                 \* read_to_end()? fails
                               chain_err(<<ErrIo>>, "error sending result"))
                        \/ Fail(out, <<>>, chain_err(
                               <<RequestPost(status, from_utf8_lossy(body))>>,
                               "error sending result"))
    /\ UNCHANGED <<cli, key, response, features, result, reads, cmds, posts>>
    /\ UNCHANGED exits

Next ==
    \/ get_matches
    \/ ReadKey
    \/ RejectKey
    \/ AcceptKey
    \/ BuildSpawn
    \/ BuildExit
    \/ SelectFeatures
    \/ RejectResponse
    \/ Decline
    \/ Confirm
    \/ Compose
    \/ TestSpawn
    \/ TestExit
    \/ SendResult
    \/ HttpReturn

Spec == Init /\ [][Next]_vars

\* A run whose steps are taken: the program goes on whenever it can, the
\* operator enters lines, and the children and the HTTP call return.
LiveSpec == Spec /\ WF_vars(Next)

\* ------------------------------------------------------- claim vocabulary

Range(f) == {f[i] : i \in 1..Len(f)}

\* The UTF-8 encoding of a String (what str::as_bytes gives).
RECURSIVE as_bytes(_)
as_bytes(s) ==
    IF s = <<>> THEN <<>>
    ELSE LET c == Head(s) IN
         (IF c < 128 THEN <<c>>
          ELSE IF c < 2048 THEN <<192 + (c \div 64), 128 + (c % 64)>>
          ELSE IF c < 65536
          THEN <<224 + (c \div 4096), 128 + ((c \div 64) % 64), 128 + (c % 64)>>
          ELSE <<240 + (c \div 262144), 128 + ((c \div 4096) % 64),
                 128 + ((c \div 64) % 64), 128 + (c % 64)>>)
         \o as_bytes(Tail(s))

\* The value of member `name` of a JSON object as to_json builds it.
json_get(json, name) == (CHOOSE m \in Range(json) : m[1] = name)[2]

\* Launched commands, by subcommand.
BuildCmds == {i \in 1..Len(cmds) : cmds[i][2] = "build"}
TestCmds == {i \in 1..Len(cmds) : cmds[i][2] = "test"}

\* The feature names cargo receives: the value after --features split at
\* the spaces, none without the argument.
passed_features(argv) ==
    IF \E j \in 1..(Len(argv) - 1) : argv[j] = "--features"
    THEN LET j == CHOOSE j \in 1..(Len(argv) - 1) : argv[j] = "--features"
             IsName(t) == t # " "
         IN  SelectSeq(argv[j + 1], IsName)
    ELSE <<>>

\* The operator's answer at the confirmation, once one has been read.
GateAsked == \E i \in 1..Len(out) : out[i] = <<"You decided to test by sending SMSs but this can cost you money, are you sure? (y/n)">>
AnsweredNo == ~is_present("no_sms") /\ trim(response) = <<110>>
AnsweredYes == ~is_present("no_sms") /\ trim(response) = <<121>>

\* The five flags that name tested subsystems, in declaration order.
DeclOrder == <<"raspicam", "fona", "gps", "telemetry", "no_power_off">>
SetFlags ==
    LET IsSet(f) == f \in cli IN SelectSeq(DeclOrder, IsSet)

\* ------------------------------------------------------------------ claims

\* C1 (as stated, for runs whose writes to stdout succeed): without
\* --no_sms, once the operator has answered "n" no build command, no test
\* command and no HTTP request has been started, and the process exits with
\* code 0.
C1_Original ==
    AnsweredNo =>
        /\ cmds = <<>>
        /\ posts = <<>>
        /\ ((pc = "exited" /\ exit_code # 101) => exit_code = 0)

\* C1 (amended): without --no_sms, once the operator has answered "n" the
\* only command started is the one build that ran before the question; no
\* test command and no HTTP request has been started at any point, and the
\* run ends without an error: with exit code 0, "Aborting test." and
\* "All tests OK" being the last two lines written, or with a panic (exit
\* code 101) if one of these two writes fails.
C1_DeclineStopsBeforeTest ==
    AnsweredNo =>
        /\ cmds = <<build_argv>>
        /\ TestCmds = {}
        /\ posts = <<>> /\ resp = <<>>
        /\ pc \in {"check_response", "exited"}
        /\ pc = "exited" =>
              /\ error = <<>>
              /\ exit_code \in {0, 101}
              /\ exit_code = 0 =>
                    (/\ Len(out) >= 2
                     /\ out[Len(out) - 1] = <<"Aborting test.">>
                     /\ out[Len(out)] = <<"All tests OK">>)

C1_Witness ==
    /\ AnsweredNo
    /\ pc = "exited" /\ exit_code = 0
    /\ cmds = <<build_argv>> /\ posts = <<>>

\* C2 (as stated): the features list recorded in the TestResult and sent in
\* the report never contains no_sms.
C2_Original ==
    /\ "no_sms" \notin Range(result.features)
    /\ \A i \in 1..Len(posts) :
          "no_sms" \notin Range(json_get(posts[i].json, "features"))

\* C2 (amended): the features list recorded in the TestResult, and sent in
\* the report, contains no_sms exactly when --no_sms is set (once the list
\* has been recorded), and so never when --no_sms is absent.
C2_NoSmsRecordedIffSet ==
    /\ "no_sms" \in Range(result.features) => is_present("no_sms")
    /\ "assembly" \in Range(stages) =>
          (is_present("no_sms") <=> "no_sms" \in Range(result.features))
    /\ \A i \in 1..Len(posts) :
          is_present("no_sms")
              <=> "no_sms" \in Range(json_get(posts[i].json, "features"))

C2_Witness ==
    /\ is_present("no_sms")
    /\ posts # <<>>
    /\ "no_sms" \in Range(json_get(posts[1].json, "features"))

\* C3: once the feature list is complete, its entries among raspicam, fona,
\* gps, telemetry, no_power_off are exactly the flags set, each once, in
\* that order; for a command line of these five flags only, that is the
\* whole list.
C3_FeaturesInDeclarationOrder ==
    "features" \in Range(stages) =>
        LET IsTested(f) == f \in Range(DeclOrder) IN
        /\ SelectSeq(features, IsTested) = SetFlags
        /\ (~is_present("no_sms") => features = SetFlags)

C3_Witness ==
    /\ "features" \in Range(stages)
    /\ cli = {"raspicam", "gps", "no_power_off"}
    /\ features = <<"raspicam", "gps", "no_power_off">>

\* C4: a key line whose trimmed length is not KEY_LEN is always answered by
\* the reprompt and another read (or the process ends there, because the
\* read fails, or the write of the reprompt fails, which can leave none, a
\* part or all of it on stdout); the run goes on from key
\* acquisition only on a line whose trimmed length is exactly KEY_LEN; and
\* no build, test or HTTP request is started before such a line has been
\* read.
C4_KeyGate ==
    /\ [][(pc = "check_key" /\ len(trim(key)) # KEY_LEN) =>
            /\ cmds' = <<>> /\ posts' = <<>>
            /\ \/ /\ pc' \in {"check_key", "exited"}
                  /\ reads' = reads + 1
                  /\ Len(out') > Len(out)
                  /\ out'[Len(out) + 1] =
                        <<"Invalid key, please, insert the correct key:">>
                  /\ (pc' = "exited" => (error' = <<ErrIo>> /\ exit_code' \in {1, 101}))
               \/ /\ pc' = "exited" /\ exit_code' = 101 /\ error' = <<>>
                  /\ reads' = reads
                  /\ out' \in
                        {out,
                         Append(out, Part(<<"Invalid key, please, insert the correct key:">>)),
                         Append(out, <<"Invalid key, please, insert the correct key:">>)}]_vars
    /\ [][(pc = "check_key" /\ pc' # "check_key" /\ pc' # "exited") =>
            /\ len(trim(key)) = KEY_LEN
            /\ key' = trim(key)]_vars
    /\ []((cmds # <<>> \/ posts # <<>> \/ "key" \in Range(stages)) =>
            (len(key) = KEY_LEN /\ key = trim(key)))

\* A run that was reprompted for the key and then went on to build.
C4_Witness ==
    /\ \E i \in 1..Len(out) :
          out[i] = <<"Invalid key, please, insert the correct key:">>
    /\ cmds # <<>>
    /\ len(key) = KEY_LEN

\* C5 (as stated, for runs that end without an error): when the build
\* command was launched and exited with a non-zero status, the run has
\* launched the test command and invoked the report POST by the time it ends.
C5_Original ==
    (pc = "exited" /\ error = <<>> /\ "build" \in Range(stages) /\ ~result.build) =>
        /\ TestCmds # {}
        /\ posts # <<>>

\* C5 (amended): a non-zero build exit never ends the run: the run goes on
\* to feature selection and the SMS confirmation (only an IO error of the
\* wait for the build, which records no exit, ends the run there).  If the confirmation is
\* passed (--no_sms, or the answer "y") and the run ends without an error,
\* the test command was launched and the report POST invoked, and every
\* payload sent carries build = false together with the test command's own
\* outcome.  (Answering "n" after the failed build ends the run with neither.)
C5_FailedBuildStillTestsAndReports ==
    /\ [][pc = "build_wait" =>
            \/ /\ pc' = "select" /\ exit_code' = -1
               /\ Len(exits') = Len(exits) + 1
            \/ /\ pc' = "exited" /\ exits' = exits
               /\ error' = <<ErrMsg("error running the build command"), ErrIo>>]_vars
    /\ []((pc = "exited" /\ error = <<>> /\ "build" \in Range(stages)
             /\ ~result.build /\ ~AnsweredNo) =>
            /\ TestCmds # {}
            /\ Len(posts) = 1)
    /\ [](\A i \in 1..Len(posts) :
            /\ "test" \in Range(stages)
            /\ json_get(posts[i].json, "build") = result.build
            /\ json_get(posts[i].json, "test") = result.test)
    /\ [][pc = "http_wait" => result' = result]_vars

\* A failed build and a passed test, both in the payload that was sent.
C5_Witness ==
    /\ posts # <<>>
    /\ "build" \in Range(stages) /\ ~result.build
    /\ json_get(posts[1].json, "build") = FALSE
    /\ json_get(posts[1].json, "test") = TRUE
    /\ TestCmds # {}

\* C6: in every run that launched the test command, the features field of
\* the TestResult, and of every payload sent, is exactly the sequence of
\* feature names passed to that test command.
C6_ReportedFeaturesArePassedFeatures ==
    \A i \in TestCmds :
        /\ result.features = passed_features(cmds[i])
        /\ \A j \in 1..Len(posts) :
              json_get(posts[j].json, "features") = passed_features(cmds[i])

\* fona and gps passed to the test command, [fona, gps] reported.
C6_Witness ==
    /\ \E i \in TestCmds : passed_features(cmds[i]) = <<"fona", "gps">>
    /\ posts # <<>>
    /\ json_get(posts[1].json, "features") = <<"fona", "gps">>

\* Whether a byte buffer is well-formed UTF-8 (the table of well-formed
\* byte sequences of the Unicode standard).
InRange(bytes, i, lo, hi) == i <= Len(bytes) /\ bytes[i] >= lo /\ bytes[i] <= hi
WellFormedPrefix(bytes) ==
    LET b == Head(bytes) IN
    IF b <= 127 THEN 1
    ELSE IF b >= 194 /\ b <= 223 /\ InRange(bytes, 2, 128, 191) THEN 2
    ELSE IF \/ b = 224 /\ InRange(bytes, 2, 160, 191) /\ InRange(bytes, 3, 128, 191)
            \/ b \in (225..236) \cup {238, 239}
                  /\ InRange(bytes, 2, 128, 191) /\ InRange(bytes, 3, 128, 191)
            \/ b = 237 /\ InRange(bytes, 2, 128, 159) /\ InRange(bytes, 3, 128, 191)
         THEN 3
    ELSE IF \/ b = 240 /\ InRange(bytes, 2, 144, 191) /\ InRange(bytes, 3, 128, 191)
                  /\ InRange(bytes, 4, 128, 191)
            \/ b \in 241..243 /\ InRange(bytes, 2, 128, 191)
                  /\ InRange(bytes, 3, 128, 191) /\ InRange(bytes, 4, 128, 191)
            \/ b = 244 /\ InRange(bytes, 2, 128, 143) /\ InRange(bytes, 3, 128, 191)
                  /\ InRange(bytes, 4, 128, 191)
         THEN 4
    ELSE 0

RECURSIVE IsUtf8(_)
IsUtf8(bytes) ==
    IF bytes = <<>> THEN TRUE
    ELSE /\ WellFormedPrefix(bytes) > 0
         /\ IsUtf8(SubSeq(bytes, WellFormedPrefix(bytes) + 1, Len(bytes)))

\* C7 (as stated, for a body that could be read and an error that could be
\* printed): after a response whose status is not 200 the run fails with a
\* response error carrying that status code and the full response body
\* unchanged, no second request is made and the exit code is 1; after a 200
\* the call succeeds.
C7_Original ==
    (pc = "exited" /\ resp # <<>> /\ exit_code # 101) =>
        /\ Len(posts) = 1
        /\ IF resp[1].status = 200
           THEN exit_code = 0 /\ error = <<>>
           ELSE /\ exit_code = 1
                /\ error[Len(error)].kind # "Io" =>
                      \E i \in 1..Len(error) :
                         /\ error[i].kind = "RequestPost"
                         /\ error[i].status_code = resp[1].status
                         /\ as_bytes(error[i].response) = resp[1].body

\* The line main prints for a RequestPost cause.
RequestPostLine(e) ==
    <<"\tcaused by: ", "A '", e.status_code,
      "' status code was received, with this response body:\n", e.response>>

\* C7 (amended): after a response whose status is not 200 the run fails and
\* no second request is made.  If the body can be read, the error is a
\* response error (the cause of "error sending result") that carries the
\* status code and the body decoded as UTF-8 with each invalid sequence
\* replaced by U+FFFD: the body unchanged exactly when it is valid UTF-8.
\* If the body cannot be read the cause is an IO error.  The exit code is 1
\* when the error has been printed (the cause line shows status and body),
\* 101 when a write of it failed.  After a 200 the call succeeds: the exit
\* code is 0, or 101 when "All tests OK" cannot be written.
C7_NonOkResponseFails ==
    (pc = "exited" /\ resp # <<>>) =>
        /\ Len(posts) = 1 /\ Len(resp) = 1
        /\ IF resp[1].status = 200
           THEN error = <<>> /\ exit_code \in {0, 101}
           ELSE /\ exit_code \in {1, 101}
                /\ Len(error) = 2
                /\ error[1] = ErrMsg("error sending result")
                /\ error[2].kind \in {"RequestPost", "Io"}
                /\ error[2].kind = "RequestPost" =>
                      /\ error[2].status_code = resp[1].status
                      /\ error[2].response = from_utf8_lossy(resp[1].body)
                      /\ IsUtf8(resp[1].body)
                            <=> as_bytes(error[2].response) = resp[1].body
                      /\ ~IsUtf8(resp[1].body)
                            <=> 65533 \in Range(error[2].response)
                      /\ exit_code = 1 =>
                            \E i \in 1..Len(out) : out[i] = RequestPostLine(error[2])

\* A 404 with a non-ASCII UTF-8 body, carried by the error as it was sent.
C7_Witness ==
    /\ pc = "exited" /\ exit_code = 1
    /\ resp = <<[status |-> 404, body |-> <<97, 10, 195, 169>>]>>
    /\ error[2] = RequestPost(404, <<97, 10, 233>>)

\* C8 (as stated): the build command is never started before feature
\* selection and the safety gate have completed.
C8_Original ==
    BuildCmds # {} => "features" \in Range(stages)

\* The order in which run() completes its stages.
CodeOrder == <<"key", "build", "features", "assembly", "test", "report">>

\* C8 (amended): in every run the stages happen in the order key
\* validation, build, feature selection (including the SMS-cost safety
\* gate), result assembly, test, report, each stage starting only after the
\* previous one has completed; in particular the build command has exited
\* before the safety gate is asked, and the test command is never started
\* before feature selection and the gate have completed.
C8_StagesInCodeOrder ==
    /\ Len(stages) <= Len(CodeOrder)
    /\ stages = SubSeq(CodeOrder, 1, Len(stages))
    /\ Len(cmds) <= 2
    /\ BuildCmds \subseteq {1} /\ TestCmds \subseteq {2}
    /\ (pc \in {"get_matches", "read_key", "check_key"}) =>
          (stages = <<>> /\ cmds = <<>>)
    /\ (pc \in {"build", "build_wait"}) => stages = <<"key">>
    /\ BuildCmds # {} => "key" \in Range(stages)
    /\ (pc = "build_wait") <=>
          (Len(cmds) = 1 /\ "build" \notin Range(stages) /\ pc # "exited")
    /\ (GateAsked \/ features # <<>>) => "build" \in Range(stages)
    /\ (pc \in {"select", "check_response", "compose"}) =>
          (stages = <<"key", "build">> /\ Len(cmds) = 1)
    /\ TestCmds # {} => "assembly" \in Range(stages)
    /\ (pc = "test_wait") <=>
          (Len(cmds) = 2 /\ "test" \notin Range(stages) /\ pc # "exited")
    /\ posts # <<>> => "test" \in Range(stages)
    /\ (pc \in {"send", "http_wait"}) =>
          stages = <<"key", "build", "features", "assembly", "test">>
    /\ "report" \in Range(stages) => (posts # <<>> /\ resp # <<>>)

\* A complete run: all six stages done.
C8_Witness ==
    /\ stages = CodeOrder
    /\ GateAsked
    /\ pc = "exited"

\* How a run that has ended came to end.
EndedOk200 == resp # <<>> /\ resp[Len(resp)].status = 200
EndedDeclined == AnsweredNo /\ posts = <<>>

\* One of the four error kinds occurred: run() returned an error that is,
\* or is caused by, an IO, transport or non-OK-response error (a failed
\* spawn is an IO error).
ErrorOccurred ==
    \E i \in 1..Len(error) : error[i].kind \in {"Io", "Reqwest", "RequestPost"}

\* C9 (as stated, for a command line of the declared flags): the exit code
\* is 0 exactly when the run ended with a 200 response to the report or with
\* the answer "n" at the safety gate, and 1 exactly when run() returned an
\* IO (including a failed spawn), transport or non-OK-response error.
C9_Original ==
    (pc = "exited" /\ cli \in ValidCli) =>
        /\ exit_code = 0 <=> (EndedOk200 \/ EndedDeclined)
        /\ exit_code = 1 <=> ErrorOccurred

\* C10 (as stated): a run that ends with the build command not launched
\* ended with the spawn error of the build, exit code 1, and no test command
\* and no POST were ever started; a run that ends with the test command not
\* launched after the feature list was complete ended with the spawn error
\* of the test, exit code 1, and no POST was ever started.
C10_Original ==
    /\ (pc = "exited" /\ "key" \in Range(stages) /\ BuildCmds = {}) =>
          /\ error = <<ErrMsg("error running the build command"), ErrIo>>
          /\ exit_code = 1
          /\ cmds = <<>> /\ posts = <<>> /\ resp = <<>>
    /\ (pc = "exited" /\ "assembly" \in Range(stages) /\ TestCmds = {}) =>
          /\ error = <<ErrMsg("error running the default features test command"),
                       ErrIo>>
          /\ exit_code = 1
          /\ cmds = <<build_argv>> /\ posts = <<>> /\ resp = <<>>

\* The two prompts of the confirmation.
AskSms == <<"You decided to test by sending SMSs but this can cost you money, are you sure? (y/n)">>
AskAgain == <<"Please, select 'y' (yes) or 'n' (no)">>

\* C11 (as stated): when a read of the key gives nothing (end of input, or
\* a read that fails), key acquisition has failed with an IO error and the
\* run has ended with exit code 1; it neither reprompts nor proceeds.
C11_Original ==
    (reads > 0 /\ stages = <<>> /\ key = <<>>) =>
        /\ pc = "exited"
        /\ error = <<ErrIo>>
        /\ exit_code = 1

\* The flush of the question failed and so did the write of the error: the
\* process ended then, with the question still in the buffer.
FlushLost ==
    /\ pc = "exited" /\ exit_code = 101
    /\ error = <<ErrIo>> /\ response = <<>>
    /\ "features" \notin Range(stages)

\* C12: the SMS-cost confirmation is asked exactly in the runs without
\* --no_sms that get as far as feature selection, whether or not --fona is
\* set; without --no_sms the test command is never started unless the last
\* answer read is "y" once trimmed; with --no_sms nothing is asked or read
\* and the run goes from feature selection straight on to the test.
C12_GateIffNoSmsAbsent ==
    /\ [](GateAsked => ~is_present("no_sms"))
    /\ []((~is_present("no_sms") /\ "build" \in Range(stages) /\ pc # "select")
            => (GateAsked \/ FlushLost))
    /\ []((~is_present("no_sms") /\ TestCmds # {}) => trim(response) = <<121>>)
    /\ [](is_present("no_sms") =>
            /\ response = <<>>
            /\ AskSms \notin Range(out) /\ AskAgain \notin Range(out))
    /\ [][(is_present("no_sms") /\ pc = "select") =>
            (pc' = "compose" /\ reads' = reads /\ out' = out)]_vars
    /\ [][pc = "compose" => pc' = "test"]_vars

\* Without --fona and without --no_sms: asked, answered "y", test started.
C12_Witness ==
    /\ ~is_present("fona") /\ ~is_present("no_sms")
    /\ GateAsked
    /\ trim(response) = <<121>>
    /\ TestCmds # {}

\* C13: an answer that is neither "y" nor "n" once trimmed is followed only
\* by the repeated prompt and another read (or by the IO error of that
\* prompt or read, which ends the run with exit code 1, or 101 when the
\* error cannot be written either, the repeated prompt then being on
\* stdout whole, in part or not at all): the feature list
\* and the TestResult are unchanged and no build, test or HTTP request is
\* started; the run goes on from the confirmation only on "y" or "n".
C13_InvalidAnswerOnlyReprompts ==
    /\ [][(pc = "check_response"
             /\ trim(response) # <<121>> /\ trim(response) # <<110>>) =>
            /\ pc' \in {"check_response", "exited"}
            /\ \/ /\ Len(out') > Len(out)
                  /\ out'[Len(out) + 1] = AskAgain
               \/ /\ pc' = "exited" /\ exit_code' = 101
                  /\ out' \in {out, Append(out, Part(AskAgain))}
            /\ features' = features
            /\ result' = result
            /\ cmds' = cmds /\ posts' = posts /\ resp' = resp
            /\ stages' = stages
            /\ (pc' = "exited" => (exit_code' \in {1, 101} /\ error' = <<ErrIo>>))
            /\ (pc' = "check_response" => reads' = reads + 1)]_vars
    /\ [][(pc = "check_response" /\ pc' = "compose") =>
            trim(response) = <<121>>]_vars
    /\ [][(pc = "check_response" /\ pc' = "exited" /\ exit_code' = 0) =>
            trim(response) = <<110>>]_vars
    /\ [][pc = "check_response" =>
            pc' \in {"check_response", "compose", "exited"}]_vars

\* Two answers were rejected and the run is still at the confirmation with
\* only the build done.
C13_Witness ==
    /\ pc = "check_response"
    /\ Len(SelectSeq(out, LAMBDA l : l = AskAgain)) >= 2
    /\ cmds = <<build_argv>>
    /\ result.features = <<>>

\* C14: at most one HTTP POST is issued in a run and at most one response
\* is received; the request is issued only from send_result after the test,
\* and after a transport failure or a non-200 response the run has ended:
\* nothing further happens.
C14_AtMostOnePost ==
    /\ [](Len(posts) <= 1 /\ Len(resp) <= Len(posts))
    /\ [][posts' # posts =>
            (pc = "send" /\ posts = <<>> /\ Len(posts') = 1
             /\ posts'[1].json = to_json(result))]_vars
    /\ [][pc = "http_wait" => (pc' = "exited" /\ posts' = posts)]_vars
    /\ []((posts # <<>> /\ error # <<>>) => pc = "exited")
    /\ [][pc # "exited"]_vars

\* The one request was answered 201, which is not 200: the run ended there.
C14_Witness ==
    /\ Len(posts) = 1
    /\ pc = "exited" /\ exit_code = 1
    /\ resp # <<>> /\ resp[1].status = 201

\* C15 (as stated): the features field of the TestResult is populated only
\* after both the build and the test have completed, and from then on the
\* TestResult is not modified.
C15_Original ==
    /\ []("assembly" \in Range(stages) =>
            ("build" \in Range(stages) /\ "test" \in Range(stages)))
    /\ [][("assembly" \in Range(stages) /\ posts = <<>>) => result' = result]_vars

\* C15 (amended): the features field of the TestResult is populated after
\* the build has completed and before the test command is launched; it is
\* the completed feature list and is never modified again.  After it only
\* the test outcome (test, test_stdout, test_stderr) is recorded, when the
\* test command exits, and from then on the TestResult is not modified: it
\* is what is serialized for the report.
C15_FeaturesSetBeforeTest ==
    /\ []("assembly" \notin Range(stages) => result.features = <<>>)
    /\ []("assembly" \in Range(stages) =>
            /\ "build" \in Range(stages)
            /\ result.features = features)
    /\ [](TestCmds # {} => "assembly" \in Range(stages))
    /\ [][result'.features # result.features =>
            (pc = "compose" /\ TestCmds = {} /\ exits # <<>>)]_vars
    /\ [][("assembly" \in Range(stages) /\ result' # result) =>
            /\ pc = "test_wait"
            /\ result'.features = result.features
            /\ result'.build = result.build
            /\ result'.build_stdout = result.build_stdout
            /\ result'.build_stderr = result.build_stderr]_vars
    /\ [][(pc \in {"send", "http_wait", "exited"}) => result' = result]_vars
    /\ [](\A i \in 1..Len(posts) : posts[i].json = to_json(result))

\* The test is running and the features are already in the TestResult.
C15_Witness ==
    /\ pc = "test_wait"
    /\ result.features = <<"fona", "no_sms", "gps">>
    /\ "test" \notin Range(stages)

\* The text a --features value stands for: the pieces put together.
IsJoined(str, v) ==
    /\ Len(str) = 2 * Len(v) - 1
    /\ \A k \in 1..Len(str) :
          str[k] = IF k % 2 = 1 THEN v[(k + 1) \div 2] ELSE " "

\* C16: the test command has a --features argument exactly when the feature
\* list is not empty, and its value is then the feature names in list order
\* with one space between each two; the rest of the command line is fixed;
\* the build command is always the same four words, without any feature
\* argument.
C16_FeaturesArgument ==
    /\ \A i \in TestCmds :
          /\ ("--features" \in Range(cmds[i])) <=> (features # <<>>)
          /\ features = <<>> =>
                cmds[i] = <<"cargo", "test", "--manifest-path", manifest,
                            "--no-default-features", "--", "--ignored">>
          /\ features # <<>> =>
                /\ Len(cmds[i]) = 9
                /\ SubSeq(cmds[i], 1, 6) =
                      <<"cargo", "test", "--manifest-path", manifest,
                        "--no-default-features", "--features">>
                /\ IsJoined(cmds[i][7], features)
                /\ SubSeq(cmds[i], 8, 9) = <<"--", "--ignored">>
    /\ \A i \in BuildCmds :
          /\ cmds[i] = <<"cargo", "build", "--manifest-path", manifest>>
          /\ "--features" \notin Range(cmds[i])

\* All six names passed in one value.
C16_Witness ==
    /\ \E i \in TestCmds :
          cmds[i][7] = <<"raspicam", " ", "fona", " ", "no_sms", " ", "gps", " ",
                         "telemetry", " ", "no_power_off">>
    /\ BuildCmds = {1}

\* A test command without --features.
C16_WitnessEmpty ==
    /\ features = <<>> /\ TestCmds = {2}

\* The key loop holds a line that does not pass; a read is being waited for.
KeyRejected == pc = "check_key" /\ len(trim(key)) # KEY_LEN
AnswerRejected ==
    pc = "check_response" /\ trim(response) # <<121>> /\ trim(response) # <<110>>

\* The operator has entered MaxReads lines without the one that is needed.
OutOfLines ==
    reads = MaxReads /\ (KeyRejected \/ AnswerRejected)

\* C17: however many key lines have been read, while the last one does not
\* pass the run has started nothing, cannot go on, and asks again (within
\* the MaxReads lines of a run); only an IO error (of the read, or of the
\* write of the reprompt, which is a panic) takes it out of the key loop to
\* its end.  And a run whose operator enters a valid key and, where
\* asked, a valid answer, and whose children and HTTP call return, ends:
\* from every point of a run, the run later ends, unless the operator has
\* used the MaxReads lines and the last one was rejected.
C17_NoRetryLimitAndTermination ==
    /\ [](KeyRejected =>
            /\ cmds = <<>> /\ posts = <<>> /\ stages = <<>>
            /\ ~ENABLED AcceptKey
            /\ (reads < MaxReads =>
                  ENABLED (RejectKey /\ pc' = "check_key" /\ reads' = reads + 1))
            /\ Len(out) = reads
            /\ \A i \in 2..Len(out) :
                  out[i] = <<"Invalid key, please, insert the correct key:">>)
    /\ [][(pc = "check_key" /\ pc' = "exited") =>
            \/ error' = <<ErrIo>> /\ exit_code' \in {1, 101}
            \/ /\ error' = <<>> /\ exit_code' = 101
               /\ \/ out' = out
                  \/ /\ Len(out') = Len(out) + 1
                     /\ SubSeq(out', 1, Len(out)) = out
                     /\ out'[Len(out')] \in
                           {<<"Invalid key, please, insert the correct key:">>,
                            Part(<<"Invalid key, please, insert the correct key:">>)}]_vars
    /\ [][(pc = "check_key" /\ pc' = "build") => len(trim(key)) = KEY_LEN]_vars
    /\ []<>(pc = "exited" \/ OutOfLines)

\* Every line read so far was rejected, and the run is still asking.
C17_Witness ==
    /\ KeyRejected
    /\ reads >= 3
    /\ cmds = <<>>

\* C18: the build command and the test command are each launched at most
\* once, build first; the test command is launched only after the build
\* command has exited, and a POST is issued only after both have exited; the
\* payload's build and test booleans are the exit-success of those two
\* executions.  (A command whose exit is never recorded is one whose wait
\* failed: the run ended there with that error, and nothing was sent.)
C18_OnceEachInOrder ==
    /\ Cardinality(BuildCmds) <= 1 /\ Cardinality(TestCmds) <= 1
    /\ Len(cmds) = Cardinality(BuildCmds) + Cardinality(TestCmds)
    /\ Len(exits) <= Len(cmds) /\ Len(cmds) <= Len(exits) + 1
    /\ (pc \in {"build_wait", "test_wait"}) => Len(cmds) > Len(exits)
    /\ (Len(cmds) > Len(exits) /\ pc \notin {"build_wait", "test_wait"}) =>
          /\ pc = "exited" /\ posts = <<>>
          /\ error = <<ErrMsg(IF Len(cmds) = 1
                              THEN "error running the build command"
                              ELSE "error running the default features test command"),
                       ErrIo>>
    /\ TestCmds # {} => (BuildCmds = {1} /\ TestCmds = {2} /\ Len(exits) >= 1)
    /\ Len(exits) >= 1 => result.build = exits[1]
    /\ Len(exits) >= 2 => result.test = exits[2]
    /\ \A i \in 1..Len(posts) :
          /\ Len(cmds) = 2 /\ Len(exits) = 2
          /\ json_get(posts[i].json, "build") = exits[1]
          /\ json_get(posts[i].json, "test") = exits[2]

\* The build passed, the test failed, and that is what was sent.
C18_Witness ==
    /\ posts # <<>>
    /\ exits = <<TRUE, FALSE>>
    /\ json_get(posts[1].json, "build") = TRUE
    /\ json_get(posts[1].json, "test") = FALSE

\* C19: the username of the request is the trimmed text of the last key
\* line read, KEY_LEN bytes long, with no password; `key` is that text from
\* the moment the key loop ends and never changes afterwards, so no rejected
\* line is ever used.
C19_UsernameIsValidatedKey ==
    /\ [](\A i \in 1..Len(posts) :
            /\ posts[i].username = key
            /\ posts[i].password = "None"
            /\ len(posts[i].username) = KEY_LEN
            /\ trim(posts[i].username) = posts[i].username)
    /\ [][(pc = "check_key" /\ pc' = "build") =>
            (len(trim(key)) = KEY_LEN /\ key' = trim(key))]_vars
    /\ [][(pc \notin {"read_key", "check_key"}) => key' = key]_vars

\* A key typed with blanks around it, sent without them after a rejected line.
C19_Witness ==
    /\ posts # <<>>
    /\ posts[1].username = Rep(KEY_LEN, 120)
    /\ reads >= 2
    /\ <<"Invalid key, please, insert the correct key:">> \in Range(out)

====
